---------------------------- MODULE Spec2Model ----------------------------
(***************************************************************************)
(* MIL-STD-1750A float conversion (src/src/lib.rs): the three encoders     *)
(* f16_to_1750a, f32_to_1750a, f48_to_1750a and the three decoders         *)
(* m1750a_to_16flt, m1750a_to_32flt, m1750a_to_48flt.                      *)
(*                                                                         *)
(* Representation.  TLC's integers are 32-bit, so                          *)
(*   - a 16-bit word is an integer 0..65535;                               *)
(*   - a 32-bit word is two 16-bit limbs <<lo, hi>>, a u64/i64 four limbs  *)
(*     <<l1, l2, l3, l4>> (little-endian, two's complement for i64);       *)
(*   - a float is [cls, neg, sig, ex]: cls is "fin", "inf" or "nan"; a     *)
(*     finite nonzero value is (-1)^neg * sig * 2^(ex - (p - 1)) with the  *)
(*     significand normalised to p bits, 2^(p-1) <= sig < 2^p  (p = 11 for *)
(*     f16, 24 for f32, 53 for f64, where sig is four limbs); zero has     *)
(*     sig = 0.  So ex = floor(log2 |value|).                              *)
(***************************************************************************)
EXTENDS Integers, Sequences, FiniteSets

VARIABLES pc, overflow_checks, x, enc, w, y

vars == <<pc, overflow_checks, x, enc, w, y>>

-----------------------------------------------------------------------------
(* Integer helpers *)

RECURSIVE Pow2(_)
Pow2(n) == IF n <= 0 THEN 1 ELSE 2 * Pow2(n - 1)

RECURSIVE BitLen(_)
BitLen(n) == IF n <= 0 THEN 0 ELSE 1 + BitLen(n \div 2)

Abs(n) == IF n < 0 THEN 0 - n ELSE n

\* a | bit, for a 16-bit limb and the single bit 0x8000
Or8000(limb) == IF limb >= 32768 THEN limb ELSE limb + 32768

-----------------------------------------------------------------------------
(* Four-limb (64-bit) arithmetic *)

Limb == 65536

Big(l1, l2, l3, l4) == <<l1, l2, l3, l4>>

BigZero == Big(0, 0, 0, 0)

BigBitLen(a) ==
    IF a[4] > 0 THEN 48 + BitLen(a[4])
    ELSE IF a[3] > 0 THEN 32 + BitLen(a[3])
    ELSE IF a[2] > 0 THEN 16 + BitLen(a[2])
    ELSE BitLen(a[1])

\* a + c for a small c >= 0, modulo 2^64
BigAddSmall(a, c) ==
    LET s1 == a[1] + c
        s2 == a[2] + s1 \div Limb
        s3 == a[3] + s2 \div Limb
        s4 == a[4] + s3 \div Limb
    IN  Big(s1 % Limb, s2 % Limb, s3 % Limb, s4 % Limb)

\* a >> k (logical), 0 <= k <= 16
BigShrBits(a, k) ==
    LET d == Pow2(k)
        u == Pow2(16 - k)
    IN  Big(a[1] \div d + (a[2] % d) * u,
            a[2] \div d + (a[3] % d) * u,
            a[3] \div d + (a[4] % d) * u,
            a[4] \div d)

\* a << k modulo 2^64, 0 <= k <= 15
BigShlBits(a, k) ==
    LET u == Pow2(k)
        d == Pow2(16 - k)
    IN  Big((a[1] % d) * u,
            (a[2] % d) * u + a[1] \div d,
            (a[3] % d) * u + a[2] \div d,
            (a[4] % d) * u + a[3] \div d)

RECURSIVE BigShl(_, _)
BigShl(a, k) ==
    IF k >= 16 THEN BigShl(Big(0, a[1], a[2], a[3]), k - 16)
    ELSE BigShlBits(a, k)

\* two's-complement negation modulo 2^64
BigNeg(a) ==
    BigAddSmall(Big(Limb - 1 - a[1], Limb - 1 - a[2],
                    Limb - 1 - a[3], Limb - 1 - a[4]), 1)

BigLess(a, b) ==
    \/ a[4] < b[4]
    \/ a[4] = b[4] /\ a[3] < b[3]
    \/ a[4] = b[4] /\ a[3] = b[3] /\ a[2] < b[2]
    \/ a[4] = b[4] /\ a[3] = b[3] /\ a[2] = b[2] /\ a[1] < b[1]

\* a - b modulo 2^64
BigSub(a, b) ==
    LET r1 == a[1] - b[1]
        c1 == IF r1 < 0 THEN 1 ELSE 0
        r2 == a[2] - b[2] - c1
        c2 == IF r2 < 0 THEN 1 ELSE 0
        r3 == a[3] - b[3] - c2
        c3 == IF r3 < 0 THEN 1 ELSE 0
        r4 == a[4] - b[4] - c3
    IN  Big(r1 % Limb, r2 % Limb, r3 % Limb, r4 % Limb)

BigAbsDiff(a, b) == IF BigLess(a, b) THEN BigSub(b, a) ELSE BigSub(a, b)

-----------------------------------------------------------------------------
(* Floats *)

Fin(neg, sig, ex) == [cls |-> "fin", neg |-> neg, sig |-> sig, ex |-> ex]

Inf(neg) == [cls |-> "inf", neg |-> neg, sig |-> 0, ex |-> 0]

NaN == [cls |-> "nan", neg |-> FALSE, sig |-> 0, ex |-> 0]

\* f32::from(input) for an f16: exact, the 11-bit significand widened to 24
F32FromF16(input) == Fin(input.neg, input.sig * 8192, input.ex)

\* the integer m * 2^n (m >= 0, at most 24 bits) as an f32: exact unless it
\* overflows to infinity (2^128 and above)
F32Of(neg, m, n) ==
    IF m = 0 THEN Fin(neg, 0, 0)
    ELSE IF n + BitLen(m) - 1 >= 128 THEN Inf(neg)
    ELSE Fin(neg, m * Pow2(24 - BitLen(m)), n + BitLen(m) - 1)

\* half::f16::from_f32 (round to nearest even; 65520 and above is infinity)
F16FromF32(v) ==
    IF v.cls # "fin" \/ v.sig = 0 THEN v
    ELSE LET q    == v.sig \div 8192
             r    == v.sig % 8192
             up   == r > 4096 \/ (r = 4096 /\ q % 2 = 1)
             sig  == IF up THEN q + 1 ELSE q
             sig2 == IF sig = 2048 THEN 1024 ELSE sig
             ex2  == IF sig = 2048 THEN v.ex + 1 ELSE v.ex
         IN  IF ex2 >= 16 THEN Inf(v.neg) ELSE Fin(v.neg, sig2, ex2)

I32Max == 2147483647

I32Min == (0 - I32Max) - 1

\* round to nearest of 1/ln 2, times InvLn2Den
InvLn2Num == 1442695

InvLn2Den == 1000000

\* Whether log2 of 2^ex * (1 + n / 2^(p-1)), n > 0, rounds to the integer ex in
\* a p-bit float: ex + log2(1 + n/2^(p-1)) lies less than half a unit in the
\* last place above ex.  jb is the binade of the floats between ex and ex + 1;
\* log2(1 + d) is d / ln 2 to within a factor 1 - d/2, and at least d.
Log2RoundsDown(n, ex) ==
    LET jb == IF ex >= 1 THEN BitLen(ex) - 1 ELSE BitLen((0 - ex) - 1) - 1
    IN  /\ ex # 0
        /\ jb >= 1
        /\ n < 512
        /\ 2 * n * InvLn2Num < Pow2(jb) * InvLn2Den

\* input.abs().log2().ceil() as i32, for a float whose significand exceeds the
\* power of two 2^(p-1) by n.  log2 of a power of two is exact; log2(0) is
\* -inf, which the cast saturates to i32::MIN.
CeilLog2(isZero, n, ex) ==
    IF isZero THEN I32Min
    ELSE IF n = 0 THEN ex
    ELSE IF Log2RoundsDown(n, ex) THEN ex
    ELSE ex + 1

\* a - b in i32 overflows
SubOverflows(a, b) == (b < 0 /\ a > I32Max + b) \/ (b > 0 /\ a < I32Min + b)

\* a - b wrapped to i32 (only the overflow above I32Max arises: a >= 0 > b)
WrappingSub(a, b) ==
    IF SubOverflows(a, b) THEN ((a - (b + I32Max)) - I32Max) - 2 ELSE a - b

\* 2fXX.powi(n) by repeated squaring, the reciprocal taken last: infinite from
\* 2^emax on, zero when 2^|n| overflows, the exact power otherwise
Powi(n, emax) ==
    IF n >= emax THEN "inf" ELSE IF n <= 0 - emax THEN "zero" ELSE "exact"

\* round(sig * 2^s), half away from zero, saturated to i32::MAX
RoundShift(sig, s) ==
    IF s >= 8 THEN I32Max
    ELSE IF s >= 0 THEN sig * Pow2(s)
    ELSE IF s < -25 THEN 0
    ELSE (sig + Pow2((0 - s) - 1)) \div Pow2(0 - s)

\* ScaleRound32 with the input's sign dropped, as if the encoder scaled
\* input.abs()
ScaleRound32Unsigned(f, n) ==
    LET p == Powi(n, 128)
    IN  IF f.sig = 0 \/ p = "zero" THEN 0
        ELSE IF p = "inf" THEN I32Max
        ELSE RoundShift(f.sig, (f.ex - 23) + n)

\* (f * 2f32.powi(n)).round() as i32 for an f32 f
ScaleRound32(f, n) ==
    LET p == Powi(n, 128)
    IN  IF f.sig = 0 \/ p = "zero" THEN 0
        ELSE IF p = "inf" THEN (IF f.neg THEN I32Min ELSE I32Max)
        ELSE LET mag == RoundShift(f.sig, (f.ex - 23) + n)
             IN  IF f.neg THEN (IF mag = I32Max THEN I32Min ELSE 0 - mag)
                 ELSE mag

-----------------------------------------------------------------------------
(* Encoders, 16 and 32 bit *)

\* the boundary constant that matches the 16-bit format's F = 9
Boundary16AtField == 1024 \div 2

Boundary16 == 32768

Boundary32 == 8388608

\* "attempt to subtract with overflow": the call does not return
Panicked ==
    [panic |-> TRUE, exponent0 |-> 0, raw |-> 0, mantissa |-> 0,
     exponent |-> 0, packed |-> 0, word |-> 0]

\* `checks` is the build's overflow-checks setting (on in debug and test
\* builds, off in release builds): with it `9 - exponent` panics on overflow,
\* without it the subtraction wraps
f16_to_1750a(input, checks) ==
    LET f32_input == F32FromF16(input)
        exponent0 == CeilLog2(input.sig = 0, f32_input.sig - 8388608, input.ex)
        panic     == checks /\ SubOverflows(9, exponent0)
        mantissa0 == ScaleRound32(f32_input, WrappingSub(9, exponent0))
        hit       == mantissa0 = Boundary16
        mantissa  == IF hit THEN mantissa0 \div 2 ELSE mantissa0
        exponent  == IF hit THEN exponent0 + 1 ELSE exponent0
        mantissa_bits == (mantissa % 1024) * 64
        exponent_bits == exponent % 64
    IN  IF panic THEN Panicked
        ELSE [panic |-> FALSE, exponent0 |-> exponent0, raw |-> mantissa0,
              mantissa |-> mantissa, exponent |-> exponent,
              packed |-> mantissa_bits + exponent_bits,
              word |-> mantissa_bits + exponent_bits]

\* result |= 0x80000000 on the limbs <<lo, hi>>
SetSign32(result) == <<result[1], Or8000(result[2])>>

f32_to_1750a(input) ==
    IF input.sig = 0
    THEN [panic |-> FALSE, exponent0 |-> 0, raw |-> 0, mantissa |-> 0,
          exponent |-> 0, packed |-> <<0, 0>>, word |-> <<0, 0>>]
    ELSE
    LET exponent0 == CeilLog2(FALSE, input.sig - 8388608, input.ex)
        mantissa0 == ScaleRound32(input, 23 - exponent0)
        hit       == mantissa0 = Boundary32
        mantissa  == IF hit THEN mantissa0 \div 2 ELSE mantissa0
        exponent  == IF hit THEN exponent0 + 1 ELSE exponent0
        field     == mantissa % 16777216
        shifted   == <<(field % 256) * 256 + (exponent % 256), field \div 256>>
    IN  [panic |-> FALSE, exponent0 |-> exponent0, raw |-> mantissa0,
         mantissa |-> mantissa, exponent |-> exponent, packed |-> shifted,
         word |-> IF input.neg THEN SetSign32(shifted) ELSE shifted]

-----------------------------------------------------------------------------
(* Decoders, 16 and 32 bit *)

m1750a_to_16flt(input) ==
    LET mantissa == (input \div 64) % 1024
        exponent == input % 64
    IN  F16FromF32(F32Of(FALSE, mantissa, exponent - 9))

\* m1750a_to_32flt with the exponent field sign-extended from 8 bits
m1750a_to_32flt_SignExtended(input) ==
    LET mantissa == input[2] * 256 + input[1] \div 256
        field    == input[1] % 256
        exponent == IF field >= 128 THEN field - 256 ELSE field
        signed_mantissa == IF mantissa >= 8388608
                           THEN 0 - (((16777215 - mantissa) % 16777216) + 1)
                           ELSE mantissa
    IN  F32Of(signed_mantissa < 0, Abs(signed_mantissa), exponent - 23)

m1750a_to_32flt(input) ==
    LET mantissa == input[2] * 256 + input[1] \div 256
        exponent == input[1] % 256
        signed_mantissa == IF mantissa >= 8388608
                           THEN 0 - (((16777215 - mantissa) % 16777216) + 1)
                           ELSE mantissa
        p == Powi(exponent - 23, 128)
    IN  IF p = "inf"
        THEN (IF signed_mantissa = 0 THEN NaN ELSE Inf(signed_mantissa < 0))
        ELSE F32Of(signed_mantissa < 0, Abs(signed_mantissa), exponent - 23)

-----------------------------------------------------------------------------
(* 48 bit *)

RECURSIVE BigShr(_, _)
BigShr(a, k) ==
    IF k > 16 THEN BigShr(Big(a[2], a[3], a[4], 0), k - 16)
    ELSE BigShrBits(a, k)

I64Max == Big(65535, 65535, 65535, 32767)

I64Min == Big(0, 0, 0, 32768)

\* sig - 2^52 when that is below 512, else 512 ("far from the power of two")
Excess64(sig) ==
    IF sig[4] = 16 /\ sig[3] = 0 /\ sig[2] = 0 /\ sig[1] < 512
    THEN sig[1] ELSE 512

\* round(sig * 2^s), half away from zero, saturated to i64::MAX, for a 53-bit sig
BigRoundShift(sig, s) ==
    IF s >= 11 THEN I64Max
    ELSE IF s >= 0 THEN BigShl(sig, s)
    ELSE IF s < -54 THEN BigZero
    ELSE BigShrBits(BigAddSmall(BigShr(sig, (0 - s) - 1), 1), 1)

\* (f * 2f64.powi(n)).round() as i64 for a nonzero f64 f
ScaleRound64(f, n) ==
    LET p == Powi(n, 1024)
    IN  IF p = "zero" THEN BigZero
        ELSE IF p = "inf" THEN (IF f.neg THEN I64Min ELSE I64Max)
        ELSE LET mag == BigRoundShift(f.sig, (f.ex - 52) + n)
             IN  IF f.neg THEN (IF mag = I64Max THEN I64Min ELSE BigNeg(mag))
                 ELSE mag

\* 549755813888 = 2^39
Boundary48 == Big(0, 0, 128, 0)

\* Mantissa1 without the & 0xFFFFFF mask: the arithmetic shift alone
Mantissa1Unmasked(mantissa) ==
    Big(mantissa[2], mantissa[3], mantissa[4],
        IF mantissa[4] >= 32768 THEN 65535 ELSE 0)

\* ((mantissa >> 16) & 0xFFFFFF) as u32, widened to u64
Mantissa1(mantissa) == Big(mantissa[2], mantissa[3] % 256, 0, 0)

\* result |= 0x800000000000
SetSign48(result) == Big(result[1], result[2], Or8000(result[3]), result[4])

\* (mantissa1 << 24) | (exponent << 16) | mantissa2: the three fields share no
\* bit, so the two ORs add
Pack48(mantissa1, exponent, mantissa2) ==
    LET hi == BigShl(mantissa1, 24)
    IN  Big(hi[1] + mantissa2, hi[2] + exponent, hi[3], hi[4])

f48_to_1750a(input) ==
    IF input.sig = BigZero
    THEN [panic |-> FALSE, exponent0 |-> 0, raw |-> BigZero,
          mantissa |-> BigZero, exponent |-> 0, packed |-> BigZero,
          word |-> BigZero]
    ELSE
    LET exponent0 == CeilLog2(FALSE, Excess64(input.sig), input.ex)
        mantissa0 == ScaleRound64(input, 39 - exponent0)
        hit       == mantissa0 = Boundary48
        mantissa  == IF hit THEN BigShrBits(mantissa0, 1) ELSE mantissa0
        exponent  == IF hit THEN exponent0 + 1 ELSE exponent0
        mantissa1 == Mantissa1(mantissa)
        mantissa2 == mantissa[1]
        result    == Pack48(mantissa1, exponent % 256, mantissa2)
    IN  [panic |-> FALSE, exponent0 |-> exponent0, raw |-> mantissa0,
         mantissa |-> mantissa, exponent |-> exponent, packed |-> result,
         word |-> IF input.neg THEN SetSign48(result) ELSE result]

\* the integer m * 2^n (m a 4-limb natural of at most 53 bits) as an f64; the
\* exponents reached here (at most 255) never overflow
F64Of(m, n) ==
    IF m = BigZero THEN Fin(FALSE, BigZero, 0)
    ELSE Fin(FALSE, BigShl(m, 53 - BigBitLen(m)), (n + BigBitLen(m)) - 1)

m1750a_to_48flt(input) ==
    LET mantissa1 == input[2] \div 256 + input[3] * 256
        mantissa2 == input[1]
        exponent  == input[2] % 256
        \* value1 = mantissa1 * 2^(exponent - 23) and value2 = mantissa2 *
        \* 2^(exponent - 39) are exact, and so is their sum: an integer below
        \* 2^40 times 2^(exponent - 39)
        sum == Big(mantissa2, mantissa1 % Limb, mantissa1 \div Limb, 0)
    IN  F64Of(sum, exponent - 39)

-----------------------------------------------------------------------------
(* The inputs drawn *)

\* how many units in the last place around a power of two the drawn
\* significands and mantissa fields reach
MaxUlps == 2

\* an f16 / f32 / f64 with significand sig and exponent ex exists: below the
\* normal range the low bits of a subnormal are zero
IsF16(sig, ex) == ex >= -14 \/ (ex >= -24 /\ sig % Pow2(-14 - ex) = 0)

IsF32(sig, ex) == ex >= -126 \/ (ex >= -149 /\ sig % Pow2(-126 - ex) = 0)

IsF64(sig, ex) ==
    ex >= -1022 \/ (ex >= -1074 /\ BigShl(BigShr(sig, -1022 - ex), -1022 - ex) = sig)

\* 12.4 and 25.63 as f16 are 1587 * 2^-7 and 1640 * 2^-6
F16Sigs ==
    {1024 + i : i \in 0..MaxUlps} \cup {2048 - i : i \in 1..MaxUlps}
        \cup {1587, 1640}

F16Inputs ==
    {Fin(neg, 0, 0) : neg \in BOOLEAN} \cup
    {f \in {Fin(neg, sig, ex) : neg \in BOOLEAN, sig \in F16Sigs,
                                 ex \in -24..15} : IsF16(f.sig, f.ex)}

\* 5.234 and 25.63 as f32 are 10976494 * 2^-21 and 13437501 * 2^-19
F32Sigs ==
    {8388608 + i : i \in 0..MaxUlps} \cup {16777216 - i : i \in 1..MaxUlps}
        \cup {10976494, 13437501, 12582912}

F32Exps ==
    {-149, -130, -129, -128, -127, -110, -106, -105, -104, -24, -2, -1,
     0, 1, 2, 4, 8, 9, 16, 64, 100, 126, 127}

F32Inputs ==
    {Fin(neg, 0, 0) : neg \in BOOLEAN} \cup
    {f \in {Fin(neg, sig, ex) : neg \in BOOLEAN, sig \in F32Sigs,
                                 ex \in F32Exps} : IsF32(f.sig, f.ex)}

\* 2^52 + i; 2^53 - i; the significands around 2^53 - 2^13, from which
\* sig / 2^14 rounds to 2^39; 105.639485637361; pi; 1.5 * 2^52
F64Sigs ==
    {Big(i, 0, 0, 16) : i \in 0..MaxUlps} \cup
    {Big(Limb - i, 65535, 65535, 31) : i \in 1..MaxUlps} \cup
    {Big(57344 - i, 65535, 65535, 31) : i \in 0..MaxUlps} \cup
    {Big(44683, 21802, 26861, 26), Big(11544, 21572, 8699, 25),
     Big(0, 0, 0, 24)}

F64Exps ==
    {-1074, -1030, -1022, -1000, -986, -985, -984, -129, -128, -127, -2, -1,
     0, 1, 2, 4, 6, 8, 64, 126, 127, 128, 1023}

F64Inputs ==
    {Fin(neg, BigZero, 0) : neg \in BOOLEAN} \cup
    {f \in {Fin(neg, sig, ex) : neg \in BOOLEAN, sig \in F64Sigs,
                                 ex \in F64Exps} : IsF64(f.sig, f.ex)}

Words16 ==
    {mantissa * 64 + exponent :
        mantissa \in (0..MaxUlps) \cup ((512 - MaxUlps)..(512 + MaxUlps))
                        \cup ((1023 - MaxUlps)..1023) \cup {397, 201},
        exponent \in {0, 1, 4, 9, 15, 16, 24, 25, 31, 32, 33, 48, 62, 63}}

\* 0x997AE1 and 0x9F34EA are the mantissa fields of the words the tests decode
Fields24 ==
    (0..MaxUlps) \cup {4194304 + i : i \in 0..MaxUlps}
        \cup ((8388608 - MaxUlps)..(8388608 + MaxUlps))
        \cup {12582912 - i : i \in 0..MaxUlps}
        \cup {16777216 - i : i \in 1..MaxUlps}
        \cup {10058465, 10433770, 5487223}

ExpFields8 == {0, 1, 3, 5, 9, 12, 23, 24, 65, 101, 127, 128, 150, 151, 200, 255}

Words32 ==
    {<<(field % 256) * 256 + exponent, field \div 256>> :
        field \in Fields24, exponent \in ExpFields8}

Words48 ==
    {Big(mantissa2, (field % 256) * 256 + exponent, field \div 256, top) :
        mantissa2 \in {0, 1, 21675, 65535}, field \in Fields24,
        exponent \in {0, 7, 39, 127, 128, 255}, top \in {0, 65535}}

-----------------------------------------------------------------------------
(* The calls *)

NoFloat == [cls |-> "none", neg |-> FALSE, sig |-> 0, ex |-> 0]

NoEnc ==
    [panic |-> FALSE, exponent0 |-> 0, raw |-> 0, mantissa |-> 0,
     exponent |-> 0, packed |-> 0, word |-> 0]

Init ==
    /\ pc = "idle"
    /\ overflow_checks \in BOOLEAN
    /\ x = NoFloat
    /\ enc = NoEnc
    /\ w = 0
    /\ y = NoFloat

Encode16 ==
    /\ pc = "idle"
    /\ \E input \in F16Inputs :
          /\ x' = input
          /\ enc' = f16_to_1750a(input, overflow_checks)
          /\ pc' = IF enc'.panic THEN "panic16" ELSE "enc16"
    /\ UNCHANGED <<overflow_checks, w, y>>

Encode32 ==
    /\ pc = "idle"
    /\ \E input \in F32Inputs :
          /\ x' = input
          /\ enc' = f32_to_1750a(input)
    /\ pc' = "enc32"
    /\ UNCHANGED <<overflow_checks, w, y>>

Encode48 ==
    /\ pc = "idle"
    /\ \E input \in F64Inputs :
          /\ x' = input
          /\ enc' = f48_to_1750a(input)
    /\ pc' = "enc48"
    /\ UNCHANGED <<overflow_checks, w, y>>

Decode16 ==
    /\ pc = "idle"
    /\ \E input \in Words16 :
          /\ w' = input
          /\ y' = m1750a_to_16flt(input)
    /\ pc' = "dec16"
    /\ UNCHANGED <<overflow_checks, x, enc>>

Decode32 ==
    /\ pc = "idle"
    /\ \E input \in Words32 :
          /\ w' = input
          /\ y' = m1750a_to_32flt(input)
    /\ pc' = "dec32"
    /\ UNCHANGED <<overflow_checks, x, enc>>

Decode48 ==
    /\ pc = "idle"
    /\ \E input \in Words48 :
          /\ w' = input
          /\ y' = m1750a_to_48flt(input)
    /\ pc' = "dec48"
    /\ UNCHANGED <<overflow_checks, x, enc>>

\* decode(encode(x)): the word an encoder returned goes to its decoder
RoundTrip16 ==
    /\ pc = "enc16"
    /\ w' = enc.word
    /\ y' = m1750a_to_16flt(enc.word)
    /\ pc' = "rt16"
    /\ UNCHANGED <<overflow_checks, x, enc>>

RoundTrip32 ==
    /\ pc = "enc32"
    /\ w' = enc.word
    /\ y' = m1750a_to_32flt(enc.word)
    /\ pc' = "rt32"
    /\ UNCHANGED <<overflow_checks, x, enc>>

RoundTrip48 ==
    /\ pc = "enc48"
    /\ w' = enc.word
    /\ y' = m1750a_to_48flt(enc.word)
    /\ pc' = "rt48"
    /\ UNCHANGED <<overflow_checks, x, enc>>

\* encode(decode(w)): the finite float the 32-bit decoder returned goes to
\* the 32-bit encoder
Reencode32 ==
    /\ pc = "dec32"
    /\ y.cls = "fin"
    /\ x' = y
    /\ enc' = f32_to_1750a(y)
    /\ pc' = "re32"
    /\ UNCHANGED <<overflow_checks, w, y>>

\* the caller is done with the results; a panicked process does not go on
Return ==
    /\ pc \notin {"idle", "panic16"}
    /\ pc' = "idle"
    /\ x' = NoFloat
    /\ enc' = NoEnc
    /\ w' = 0
    /\ y' = NoFloat
    /\ UNCHANGED overflow_checks

Next ==
    \/ Encode16
    \/ Encode32
    \/ Encode48
    \/ Decode16
    \/ Decode32
    \/ Decode48
    \/ RoundTrip16
    \/ RoundTrip32
    \/ RoundTrip48
    \/ Reencode32
    \/ Return

Spec == Init /\ [][Next]_vars

-----------------------------------------------------------------------------
(* Reading the fields of a word, and comparing float values *)

MantissaField16(word) == (word \div 64) % 1024

ExponentField16(word) == word % 64

MantissaField32(word) == word[2] * 256 + word[1] \div 256

ExponentField32(word) == word[1] % 256

\* bits 47-24, bits 23-16 and bits 15-0 of a 48-bit word
HighField48(word) == word[3] * 256 + word[2] \div 256

ExponentField48(word) == word[2] % 256

LowField48(word) == word[1]

\* bits 39-16 of a two's-complement i64
Bits39to16(mantissa) == mantissa[2] + (mantissa[3] % 256) * Limb

\* a 24-bit field read as a two's-complement integer
Signed24(field) == IF field >= 8388608 THEN field - 16777216 ELSE field

\* ceil(log2 |v|) of a finite nonzero float: ex for a power of two, else ex + 1
TrueExponent(v, one) == IF v.sig = one THEN v.ex ELSE v.ex + 1

One16 == Pow2(10)

One32 == Pow2(23)

One64 == Big(0, 0, 0, 16)

Min(a, b) == IF a < b THEN a ELSE b

\* |b - a| <= 2^be for a finite nonzero a; a and b have p-bit significands
Within(a, b, p, be) ==
    /\ b.cls = "fin"
    /\ b.sig # 0
    /\ b.neg = a.neg
    /\ b.ex - a.ex \in {-1, 0, 1}
    /\ LET mn   == Min(a.ex, b.ex)
           diff == Abs(a.sig * Pow2(a.ex - mn) - b.sig * Pow2(b.ex - mn))
           k    == be - (mn - (p - 1))
       IN  IF k < 0 THEN diff = 0 ELSE IF k >= 30 THEN TRUE ELSE diff <= Pow2(k)

\* the same for f64, whose significands are four limbs
BigWithin(a, b, be) ==
    /\ b.cls = "fin"
    /\ b.sig # BigZero
    /\ b.neg = a.neg
    /\ b.ex - a.ex \in {-1, 0, 1}
    /\ LET mn   == Min(a.ex, b.ex)
           diff == BigAbsDiff(BigShl(a.sig, a.ex - mn), BigShl(b.sig, b.ex - mn))
           k    == be - (mn - 52)
       IN  IF k < 0 THEN diff = BigZero
           ELSE IF k >= 62 THEN TRUE
           ELSE BigLess(diff, BigAddSmall(BigShl(Big(1, 0, 0, 0), k), 1))

\* v is the finite float (-1)^neg * m * 2^n, m an integer of at most p bits
ValueIs(v, p, neg, m, n) ==
    /\ v.cls = "fin"
    /\ IF m = 0 THEN v.sig = 0
       ELSE v.neg = neg /\ v.sig = m * Pow2(p - BitLen(m))
                        /\ v.ex = (n + BitLen(m)) - 1

BigValueIs(v, m, n) ==
    /\ v.cls = "fin"
    /\ IF m = BigZero THEN v.sig = BigZero
       ELSE ~v.neg /\ v.sig = BigShl(m, 53 - BigBitLen(m))
                   /\ v.ex = (n + BigBitLen(m)) - 1

Negated(v) == [v EXCEPT !.neg = ~v.neg]

Decoded16 == pc \in {"dec16", "rt16"}

Decoded32 == pc \in {"dec32", "rt32", "re32"}

Decoded48 == pc \in {"dec48", "rt48"}

-----------------------------------------------------------------------------
(* The claims *)

\* C1: round trip.  For each width and every non-negative nonzero input x
\* whose true exponent e = ceil(log2 x) fits the exponent field (-32..31 for
\* 16 bit, -128..127 for 32 and 48 bit), decode(encode(x)) is within 2^(e - F)
\* of x, F = 9, 23, 39; for 32 bit the same holds for negative x.
RoundTripWithinRounding ==
    /\ (pc = "rt16" /\ x.sig # 0 /\ ~x.neg
          /\ TrueExponent(x, One16) \in -32..31)
        => Within(x, y, 11, TrueExponent(x, One16) - 9)
    /\ (pc = "rt32" /\ x.sig # 0 /\ TrueExponent(x, One32) \in -128..127)
        => Within(x, y, 24, TrueExponent(x, One32) - 23)
    /\ (pc = "rt48" /\ x.sig # BigZero /\ ~x.neg
          /\ TrueExponent(x, One64) \in -128..127)
        => BigWithin(x, y, TrueExponent(x, One64) - 39)

\* C2: every decoder sign-extends the exponent field: a word whose exponent
\* field has its top bit set decodes to mantissa * 2^(E - F) with
\* E = field - 64 (16 bit) or field - 256 (32 and 48 bit).
DecodersSignExtendExponent ==
    /\ (pc = "dec16" /\ ExponentField16(w) >= 32)
        => ValueIs(y, 11, FALSE, MantissaField16(w),
                   (ExponentField16(w) - 64) - 9)
    /\ (pc = "dec32" /\ ExponentField32(w) >= 128)
        => ValueIs(y, 24, Signed24(MantissaField32(w)) < 0,
                   Abs(Signed24(MantissaField32(w))),
                   (ExponentField32(w) - 256) - 23)
    /\ (pc = "dec48" /\ ExponentField48(w) >= 128)
        => BigValueIs(y, Big(LowField48(w), HighField48(w) % Limb,
                             HighField48(w) \div Limb, 0),
                      (ExponentField48(w) - 256) - 39)

\* C3: boundary correction in every encoder: whenever the rounded mantissa is
\* exactly 2^F (F = 9, 23, 39) the encoder halves it and increments the
\* exponent, and the word carries mantissa 2^(F-1) and exponent e + 1.
BoundaryCorrectionEveryWidth ==
    /\ (pc = "enc16" /\ enc.raw = 512)
        => /\ enc.mantissa = 256
           /\ enc.exponent = enc.exponent0 + 1
           /\ MantissaField16(enc.word) = 256
           /\ ExponentField16(enc.word) = (enc.exponent0 + 1) % 64
    /\ (pc = "enc32" /\ enc.raw = 8388608)
        => /\ enc.mantissa = 4194304
           /\ enc.exponent = enc.exponent0 + 1
           /\ MantissaField32(enc.word) = 4194304
           /\ ExponentField32(enc.word) = (enc.exponent0 + 1) % 256
    /\ (pc = "enc48" /\ enc.raw = Big(0, 0, 128, 0))
        => /\ enc.mantissa = Big(0, 0, 64, 0)
           /\ enc.exponent = enc.exponent0 + 1
           /\ HighField48(enc.word) = 4194304
           /\ LowField48(enc.word) = 0
           /\ ExponentField48(enc.word) = (enc.exponent0 + 1) % 256

\* C4: encoding zero returns the all-zero word for every width, and none of
\* the three encoders aborts on it.
EncodeZeroIsZeroWord ==
    /\ pc = "panic16" => x.sig # 0
    /\ (pc = "enc16" /\ x.sig = 0) => enc.word = 0
    /\ (pc = "enc32" /\ x.sig = 0) => enc.word = <<0, 0>>
    /\ (pc = "enc48" /\ x.sig = BigZero) => enc.word = BigZero

InRange32 == x.sig # 0 /\ TrueExponent(x, One32) \in -128..127

\* f32_to_1750a(-x) and f32_to_1750a(x) have equal exponent fields and
\* mantissa fields that are each other's negation modulo 2^24
Symmetric32 ==
    LET other == f32_to_1750a(Negated(x)).word
    IN  /\ ExponentField32(other) = ExponentField32(enc.word)
        /\ MantissaField32(other)
             = (16777216 - MantissaField32(enc.word)) % 16777216

PowerOfTwo16 ==
    /\ pc = "panic16" => x.sig # 1024
    /\ (pc = "enc16" /\ x.sig = 1024)
        => /\ MantissaField16(enc.word) = 512
           /\ ExponentField16(enc.word) = x.ex % 64
           /\ enc.word = f16_to_1750a(Negated(x), overflow_checks).word

\* -1.0 is encoded as 0x8000
PowerOfTwo16Reached ==
    /\ pc = "enc16"
    /\ x = Fin(TRUE, 1024, 0)
    /\ enc.word = 32768

\* C8 as stated: for every finite input the 48-bit word is below 2^48, its
\* bits 47-24 are bits 39-16 of the mantissa, its bits 23-16 the exponent
\* modulo 256 and its bits 15-0 the mantissa's low 16 bits.
Layout48 ==
    pc = "enc48"
        => /\ enc.word[4] = 0
           /\ HighField48(enc.word) = Bits39to16(enc.mantissa)
           /\ ExponentField48(enc.word) = enc.exponent % 256
           /\ LowField48(enc.word) = enc.mantissa[1]

\* C8, amended: for every finite input the 48-bit word is below 2^48; zero
\* gives the all-zero word; for a nonzero input bits 46-24 are bits 38-16 of
\* the mantissa, bit 47 is the mantissa's bit 39 or-ed with the input's sign
\* bit, bits 23-16 are the exponent modulo 256 and bits 15-0 the mantissa's
\* low 16 bits.
Layout48SignOred ==
    pc = "enc48"
        => /\ enc.word[4] = 0
           /\ IF x.sig = BigZero THEN enc.word = BigZero
              ELSE /\ HighField48(enc.word) % 8388608
                        = Bits39to16(enc.mantissa) % 8388608
                   /\ HighField48(enc.word) >= 8388608
                        <=> (Bits39to16(enc.mantissa) >= 8388608 \/ x.neg)
                   /\ ExponentField48(enc.word) = enc.exponent % 256
                   /\ LowField48(enc.word) = enc.mantissa[1]

\* a negative input whose mantissa's bit 39 is clear: bit 47 comes from the
\* sign bit alone
Layout48SignOnlyReached ==
    /\ pc = "enc48"
    /\ x.neg
    /\ x.sig # BigZero
    /\ Bits39to16(enc.mantissa) < 8388608
    /\ HighField48(enc.word) >= 8388608

\* C9: encode is a left inverse of decode on normalised 32-bit words: for
\* every word w with exponent field in 0..127 and normalised mantissa
\* (2^22 <= m < 2^23 or -2^23 <= m < -2^22),
\* f32_to_1750a(m1750a_to_32flt(w)) = w.
EncodeInvertsDecode32 ==
    (/\ pc = "re32"
     /\ ExponentField32(w) \in 0..127
     /\ \/ Signed24(MantissaField32(w)) \in 4194304..8388607
        \/ Signed24(MantissaField32(w)) \in -8388608..-4194305)
        => enc.word = w

\* C10: in f32_to_1750a and f48_to_1750a the top bit of the word is set iff
\* the input is negative and nonzero, and for every nonzero in-range input
\* the rounded mantissa is not zero and or-ing the sign bit in leaves the
\* word as the packed mantissa already made it.
SignBitAlreadySet ==
    /\ (pc = "enc32" /\ (x.sig = 0 \/ InRange32))
        => /\ enc.word[2] >= 32768 <=> (x.neg /\ x.sig # 0)
           /\ x.sig # 0 => (enc.raw # 0 /\ enc.word = enc.packed)
    /\ (pc = "enc48"
          /\ (x.sig = BigZero \/ TrueExponent(x, One64) \in -128..127))
        => /\ enc.word[3] >= 32768 <=> (x.neg /\ x.sig # BigZero)
           /\ x.sig # BigZero => (enc.raw # BigZero /\ enc.word = enc.packed)

=============================================================================
